---- MODULE Spec2Model ----
(***************************************************************************)
(* HR system: the employee hierarchy of employee.py (Executive, Manager,   *)
(* Permanent, Temp with validated fields, sequential identifiers and       *)
(* calc_pay) and the main window and edit forms of gui.py that load, edit  *)
(* and save the employees.                                                 *)
(*                                                                         *)
(* Python values are tagged records, text is a sequence of one-character   *)
(* strings, and a float is an exact rational or one of nan, inf, -inf      *)
(* (binary rounding is not modelled).                                      *)
(***************************************************************************)
EXTENDS Integers, Sequences, FiniteSets, TLC

(***************************************************************************)
(* Bounds of the model.                                                    *)
(***************************************************************************)
\* Employee objects constructed in one run of Spec.
MaxEmps == 2
\* Identifiers handed out in one run of Spec (a failed construction may use one).
MaxId == 3
\* Employee objects in one run of SpecFields.
MaxFieldEmps == 1
\* Error rows a form's layout is followed up to.
MaxErrRows == 1
MaxPlaces == 4

(***************************************************************************)
(* Text.                                                                   *)
(***************************************************************************)
Digits == {"0", "1", "2", "3", "4", "5", "6", "7", "8", "9"}

DigitVal(c) ==
    CASE c = "0" -> 0 [] c = "1" -> 1 [] c = "2" -> 2 [] c = "3" -> 3
      [] c = "4" -> 4 [] c = "5" -> 5 [] c = "6" -> 6 [] c = "7" -> 7
      [] c = "8" -> 8 [] c = "9" -> 9

DigitChar(n) ==
    CASE n = 0 -> "0" [] n = 1 -> "1" [] n = 2 -> "2" [] n = 3 -> "3"
      [] n = 4 -> "4" [] n = 5 -> "5" [] n = 6 -> "6" [] n = 7 -> "7"
      [] n = 8 -> "8" [] n = 9 -> "9"

AllDigits(s) == \A i \in 1..Len(s) : s[i] \in Digits

RECURSIVE NatOf(_)
\* The number a digit string denotes; 0 for the empty string.
NatOf(s) ==
    IF s = << >> THEN 0
    ELSE NatOf(SubSeq(s, 1, Len(s) - 1)) * 10 + DigitVal(s[Len(s)])

RECURSIVE DigitsOf(_)
\* The decimal digits of a natural number, "0" for 0.
DigitsOf(n) ==
    IF n < 10 THEN << DigitChar(n) >>
    ELSE Append(DigitsOf(n \div 10), DigitChar(n % 10))

\* n written with at least w digits, zero-padded on the left.
Pad(n, w) ==
    LET ds == DigitsOf(n)
    IN  [i \in 1..(IF Len(ds) < w THEN w - Len(ds) ELSE 0) |-> "0"] \o ds

RECURSIVE Strip(_)
\* str.strip() for the blank.
Strip(s) ==
    IF s = << >> THEN s
    ELSE IF s[1] = " " THEN Strip(Tail(s))
    ELSE IF s[Len(s)] = " " THEN Strip(SubSeq(s, 1, Len(s) - 1))
    ELSE s

\* sub in s  (Python's substring test).
Contains(s, sub) ==
    \E i \in 1..(Len(s) - Len(sub) + 1) : SubSeq(s, i, i + Len(sub) - 1) = sub

\* s.endswith(sub)
EndsWith(s, sub) ==
    /\ Len(sub) <= Len(s)
    /\ SubSeq(s, Len(s) - Len(sub) + 1, Len(s)) = sub

RECURSIVE Pow10(_)
Pow10(k) == IF k = 0 THEN 1 ELSE 10 * Pow10(k - 1)

(***************************************************************************)
(* Floats: [k, n, d] is the rational n/d in lowest terms (k = "fin"), or   *)
(* nan, inf, ninf.                                                         *)
(***************************************************************************)
RECURSIVE GCD(_, _)
GCD(a, b) == IF b = 0 THEN a ELSE GCD(b, a % b)

Abs(x) == IF x < 0 THEN -x ELSE x

Fin(n, d) ==
    LET g == GCD(Abs(n), d)
    IN  [k |-> "fin", n |-> n \div g, d |-> d \div g]

NaN == [k |-> "nan", n |-> 0, d |-> 1]
PosInf == [k |-> "inf", n |-> 0, d |-> 1]
NegInf == [k |-> "ninf", n |-> 0, d |-> 1]
\* The attribute has not been assigned.
Unset == [k |-> "unset", n |-> 0, d |-> 1]

\* a <= b for floats: every comparison with nan is false.
FLe(a, b) ==
    CASE a.k = "nan" \/ b.k = "nan" -> FALSE
      [] a.k = "ninf" \/ b.k = "inf" -> TRUE
      [] a.k = "inf" \/ b.k = "ninf" -> FALSE
      [] OTHER ->
           LET g == GCD(a.d, b.d)
           IN  a.n * (b.d \div g) <= b.n * (a.d \div g)

\* a < b for floats.
FLt(a, b) == FLe(a, b) /\ a # b

\* a / m for a float a and a positive integer m.
FDiv(a, m) ==
    IF a.k # "fin" THEN a
    ELSE LET g == GCD(Abs(a.n), m)
         IN  [k |-> "fin", n |-> a.n \div g, d |-> a.d * (m \div g)]

\* a * m for a float a and a positive integer m.
FMul(a, m) ==
    IF a.k # "fin" THEN a
    ELSE LET g == GCD(m, a.d)
         IN  [k |-> "fin", n |-> a.n * (m \div g), d |-> a.d \div g]

\* The program's numeric limits.
MinYearly == Fin(50000, 1)
MinHourly == Fin(15, 1)
MaxHourly == Fin(9999, 100)

(***************************************************************************)
(* Python values: [t, s, f, dt] with t the type, s the text of a str, f    *)
(* the number of an int, bool or float, dt the fields of a datetime.       *)
(***************************************************************************)
NoDT == [y |-> 0, mo |-> 0, d |-> 0, h |-> 0, mi |-> 0, s |-> 0, us |-> 0]

DT(y, mo, d, h, mi, s, us) ==
    [y |-> y, mo |-> mo, d |-> d, h |-> h, mi |-> mi, s |-> s, us |-> us]

PyStr(s) == [t |-> "str", s |-> s, f |-> Unset, dt |-> NoDT]
PyInt(i) == [t |-> "int", s |-> << >>, f |-> Fin(i, 1), dt |-> NoDT]
PyBool(b) == [t |-> "bool", s |-> << >>, f |-> Fin(IF b THEN 1 ELSE 0, 1), dt |-> NoDT]
PyFloat(f) == [t |-> "float", s |-> << >>, f |-> f, dt |-> NoDT]
PyNone == [t |-> "NoneType", s |-> << >>, f |-> Unset, dt |-> NoDT]
PyDateTime(dt) == [t |-> "datetime", s |-> << >>, f |-> Unset, dt |-> dt]

\* isinstance(v, str), isinstance(v, int) (a bool is an int), isinstance(v, datetime)
IsStr(v) == v.t = "str"
IsInt(v) == v.t \in {"int", "bool"}
IsDateTime(v) == v.t = "datetime"

\* The exceptions of the model; NoExc when the call returned.
NoExc == "none"

\* The result of a conversion: the exception (or NoExc) and the Python value.
Conv(x, v) == [exc |-> x, v |-> v]

\* float() of a text of digits ip, a point and digits fp.
FloatOfDigits(neg, ip, fp) ==
    IF AllDigits(ip \o fp) /\ Len(ip) + Len(fp) >= 1
    THEN Conv(NoExc, PyFloat(Fin((IF neg THEN -1 ELSE 1) * NatOf(ip \o fp),
                                 Pow10(Len(fp)))))
    ELSE Conv("ValueError", PyNone)

\* float() of an unsigned text other than nan and inf, with its points at dots.
FloatOfDecimal(neg, body, dots) ==
    IF Cardinality(dots) > 1 THEN Conv("ValueError", PyNone)
    ELSE IF dots = {} THEN FloatOfDigits(neg, body, << >>)
    ELSE FloatOfDigits(neg, SubSeq(body, 1, (CHOOSE i \in dots : TRUE) - 1),
                       SubSeq(body, (CHOOSE i \in dots : TRUE) + 1, Len(body)))

\* float() of a text whose sign has been read.
FloatOfBody(neg, body) ==
    CASE body = <<"n", "a", "n">> -> Conv(NoExc, PyFloat(NaN))
      [] body \in {<<"i", "n", "f">>, <<"i", "n", "f", "i", "n", "i", "t", "y">>} ->
           Conv(NoExc, PyFloat(IF neg THEN NegInf ELSE PosInf))
      [] OTHER -> FloatOfDecimal(neg, body, {i \in 1..Len(body) : body[i] = "."})

\* float() of a text without blanks around it.
FloatOfStripped(t) ==
    FloatOfBody(t # << >> /\ t[1] = "-",
                IF t # << >> /\ t[1] \in {"+", "-"} THEN Tail(t) ELSE t)

\* float(text): blanks stripped, an optional sign, then nan, inf, infinity or
\* digits with at most one point. Exponents, underscores and upper case are not
\* part of the modelled texts.
FloatOfText(s) == FloatOfStripped(Strip(s))

\* float(v)
ToFloat(v) ==
    CASE v.t = "str" -> FloatOfText(v.s)
      [] v.t \in {"int", "bool", "float"} -> Conv(NoExc, PyFloat(v.f))
      [] OTHER -> Conv("TypeError", PyNone)

\* int() of a text whose sign has been read.
IntOfBody(neg, body) ==
    IF body # << >> /\ AllDigits(body)
    THEN Conv(NoExc, PyInt((IF neg THEN -1 ELSE 1) * NatOf(body)))
    ELSE Conv("ValueError", PyNone)

\* int() of a text without blanks around it.
IntOfStripped(t) ==
    IntOfBody(t # << >> /\ t[1] = "-",
              IF t # << >> /\ t[1] \in {"+", "-"} THEN Tail(t) ELSE t)

\* int(v): a text of digits with an optional sign, a number truncated towards 0.
ToInt(v) ==
    CASE v.t = "str" -> IntOfStripped(Strip(v.s))
      [] v.t \in {"int", "bool", "float"} /\ v.f.k = "fin" ->
           Conv(NoExc, PyInt(IF v.f.n < 0 THEN -((-v.f.n) \div v.f.d)
                             ELSE v.f.n \div v.f.d))
      [] v.t = "float" /\ v.f.k = "nan" -> Conv("ValueError", PyNone)
      [] v.t = "float" -> Conv("OverflowError", PyNone)
      [] OTHER -> Conv("TypeError", PyNone)

(***************************************************************************)
(* datetime.strptime(text, '%Y-%m-%d %H:%M:%S') and str(datetime).         *)
(***************************************************************************)
IsLeap(y) == (y % 4 = 0 /\ y % 100 # 0) \/ y % 400 = 0

DaysIn(y, mo) ==
    CASE mo \in {1, 3, 5, 7, 8, 10, 12} -> 31
      [] mo \in {4, 6, 9, 11} -> 30
      [] OTHER -> IF IsLeap(y) THEN 29 ELSE 28

RECURSIVE Runs(_)
\* The text cut into maximal runs of digits, maximal runs of blanks (each one
\* << " " >>) and single other characters.
Runs(s) ==
    IF s = << >> THEN << >>
    ELSE LET same(c) == IF s[1] \in Digits THEN c \in Digits
                        ELSE s[1] = " " /\ c = " "
             n == IF \A i \in 1..Len(s) : same(s[i]) THEN Len(s)
                  ELSE (CHOOSE i \in 1..Len(s) :
                          /\ ~same(s[i])
                          /\ \A j \in 1..(i - 1) : same(s[j])) - 1
             m == IF n = 0 THEN 1 ELSE n
         IN  << IF s[1] = " " THEN << " " >> ELSE SubSeq(s, 1, m) >>
                \o Runs(SubSeq(s, m + 1, Len(s)))

\* A field of one or two digits within lo..hi, as the format's directives match it.
TwoDigit(r, lo, hi) ==
    /\ r # << >> /\ AllDigits(r) /\ Len(r) <= 2
    /\ NatOf(r) >= lo /\ NatOf(r) <= hi

\* strptime of a text cut into the runs r: year, month, day, hour, minute and
\* second between their separators, and a day the month has.
StrpTimeOfRuns(r) ==
    IF /\ Len(r) = 11
       /\ AllDigits(r[1]) /\ Len(r[1]) = 4
       /\ r[2] = << "-" >> /\ TwoDigit(r[3], 1, 12)
       /\ r[4] = << "-" >> /\ TwoDigit(r[5], 1, 31)
       /\ r[6] = << " " >>
       /\ TwoDigit(r[7], 0, 23)
       /\ r[8] = << ":" >> /\ TwoDigit(r[9], 0, 59)
       /\ r[10] = << ":" >> /\ TwoDigit(r[11], 0, 59)
       /\ NatOf(r[1]) >= 1
       /\ NatOf(r[5]) <= DaysIn(NatOf(r[1]), NatOf(r[3]))
    THEN Conv(NoExc, PyDateTime(DT(NatOf(r[1]), NatOf(r[3]), NatOf(r[5]),
                                   NatOf(r[7]), NatOf(r[9]), NatOf(r[11]), 0)))
    ELSE Conv("ValueError", PyNone)

\* datetime.strptime(v, '%Y-%m-%d %H:%M:%S')
StrpTime(v) ==
    IF v.t # "str" THEN Conv("TypeError", PyNone) ELSE StrpTimeOfRuns(Runs(v.s))

\* str(dt): 'YYYY-MM-DD HH:MM:SS', followed by '.ffffff' when microsecond # 0.
StrOfDateTime(dt) ==
    Pad(dt.y, 4) \o << "-" >> \o Pad(dt.mo, 2) \o << "-" >> \o Pad(dt.d, 2)
      \o << " " >> \o Pad(dt.h, 2) \o << ":" >> \o Pad(dt.mi, 2)
      \o << ":" >> \o Pad(dt.s, 2)
      \o (IF dt.us = 0 THEN << >> ELSE << "." >> \o Pad(dt.us, 6))

\* f"{x:.2f}": two decimals, rounded to the nearest (ties to even).
Format2f(x) ==
    LET a     == Abs(x.n)
        whole == a \div x.d
        r100  == (a % x.d) * 100
        down  == whole * 100 + r100 \div x.d
        rest  == r100 % x.d
        cents == IF 2 * rest > x.d \/ (2 * rest = x.d /\ down % 2 = 1)
                 THEN down + 1 ELSE down
    IN  CASE x.k = "nan" -> <<"n", "a", "n">>
          [] x.k = "inf" -> <<"i", "n", "f">>
          [] x.k = "ninf" -> <<"-", "i", "n", "f">>
          [] OTHER -> (IF x.n < 0 THEN << "-" >> ELSE << >>)
                        \o DigitsOf(cents \div 100) \o << "." >> \o Pad(cents % 100, 2)

\* The digits after the point of the shortest decimal that denotes x, counted
\* from k; at most MaxPlaces are tried.
RECURSIVE DecimalPlaces(_, _)
DecimalPlaces(x, k) ==
    IF k >= MaxPlaces \/ (x.n * Pow10(k)) % x.d = 0 THEN k
    ELSE DecimalPlaces(x, k + 1)

\* f"{x}", that is str(x), of a float: the shortest decimal that reads back
\* as x, with at least one digit after the point.
StrOfFloat(x) ==
    LET k      == IF DecimalPlaces(x, 0) < 1 THEN 1 ELSE DecimalPlaces(x, 0)
        scaled == (Abs(x.n) * Pow10(k)) \div x.d
    IN  CASE x.k = "nan" -> <<"n", "a", "n">>
          [] x.k = "inf" -> <<"i", "n", "f">>
          [] x.k = "ninf" -> <<"-", "i", "n", "f">>
          [] OTHER -> (IF x.n < 0 THEN << "-" >> ELSE << >>)
                        \o DigitsOf(scaled \div Pow10(k)) \o << "." >>
                        \o Pad(scaled % Pow10(k), k)

(***************************************************************************)
(* employee.py: the employee objects.  An object is a record of its        *)
(* attributes; an attribute its class does not have stays Unset, 0 or NoDT.*)
(***************************************************************************)
\* "@acme-machining.com"
EmailDomain ==
    <<"@", "a", "c", "m", "e", "-", "m", "a", "c", "h", "i", "n", "i", "n", "g",
      ".", "c", "o", "m">>

\* Employee.IMAGE_PLACEHOLDER, "./imagesForProject2CIS163/placeholder.png"
IMAGE_PLACEHOLDER ==
    <<".", "/", "i", "m", "a", "g", "e", "s", "F", "o", "r", "P", "r", "o", "j",
      "e", "c", "t", "2", "C", "I", "S", "1", "6", "3", "/", "p", "l", "a", "c",
      "e", "h", "o", "l", "d", "e", "r", ".", "p", "n", "g">>

\* [role.value for role in Role], [dept.value for dept in Department]
Role == 1..3
Department == 1..5

SalariedClasses == {"Executive", "Manager"}
HourlyClasses == {"Permanent", "Temp"}
Classes == SalariedClasses \cup HourlyClasses

\* An object of class cls before __init__ has assigned anything.
NewObject(cls) ==
    [cls |-> cls, id_number |-> 0, name |-> << >>, email |-> << >>,
     image |-> << >>, yearly |-> Unset, hourly |-> Unset, role |-> 0,
     department |-> 0, hired_date |-> NoDT, last_day |-> NoDT]

\* The result of a call on an object: the exception raised (or NoExc) and the object.
Raise(x, e) == [exc |-> x, e |-> e]
Return(e) == [exc |-> NoExc, e |-> e]

\* The name setter as it would be with the type test alone.
name_setter_typed(e, v) ==
    IF ~IsStr(v) THEN Raise("ValueError", e)
    ELSE Return([e EXCEPT !.name = v.s])

\* Employee.name setter
name_setter(e, v) ==
    IF ~IsStr(v) \/ Len(v.s) <= 0 THEN Raise("ValueError", e)
    ELSE Return([e EXCEPT !.name = v.s])

\* The email setter as it would be if it tested the end of the text.
email_setter_suffix(e, v) ==
    IF ~IsStr(v) \/ Len(v.s) <= 0 \/ ~EndsWith(v.s, EmailDomain)
    THEN Raise("ValueError", e)
    ELSE Return([e EXCEPT !.email = v.s])

\* Employee.email setter
email_setter(e, v) ==
    IF ~IsStr(v) \/ Len(v.s) <= 0 \/ ~Contains(v.s, EmailDomain)
    THEN Raise("ValueError", e)
    ELSE Return([e EXCEPT !.email = v.s])

\* Employee.image setter
image_setter(e, v) ==
    IF ~IsStr(v) \/ Len(v.s) = 0 THEN Raise("ValueError", e)
    ELSE Return([e EXCEPT !.image = v.s])

\* Salaried.yearly setter after yearly_amount = float(yearly_amount) (c): the test
\* yearly_amount <= 50_000.00 is false of nan.
yearly_check(e, c) ==
    IF c.exc # NoExc THEN Raise(c.exc, e)
    ELSE IF FLe(c.v.f, MinYearly) THEN Raise("ValueError", e)
    ELSE Return([e EXCEPT !.yearly = c.v.f])

\* Salaried.yearly setter
yearly_setter(e, v) == yearly_check(e, ToFloat(v))

\* The hourly test as it would be with 99.99 excluded.
hourly_check_open(e, c) ==
    IF c.exc # NoExc THEN Raise(c.exc, e)
    ELSE IF ~(FLe(MinHourly, c.v.f) /\ FLt(c.v.f, MaxHourly)) THEN Raise("ValueError", e)
    ELSE Return([e EXCEPT !.hourly = c.v.f])

\* Hourly.hourly setter after new_hourly = float(new_hourly) (c): the test
\* not 15.00 <= new_hourly <= 99.99.
hourly_check(e, c) ==
    IF c.exc # NoExc THEN Raise(c.exc, e)
    ELSE IF ~(FLe(MinHourly, c.v.f) /\ FLe(c.v.f, MaxHourly)) THEN Raise("ValueError", e)
    ELSE Return([e EXCEPT !.hourly = c.v.f])

\* Hourly.hourly setter
hourly_setter(e, v) == hourly_check(e, ToFloat(v))

\* new_role in all_role_vals: == against 1, 2, 3, so 1.0 and True are "in" too.
InValues(v, vals) ==
    /\ v.t \in {"int", "bool", "float"}
    /\ v.f.k = "fin" /\ v.f.d = 1 /\ v.f.n \in vals

\* The role setter as it would be without isinstance(new_role, int).
role_setter_untyped(e, v) ==
    IF ~InValues(v, Role) THEN Raise("InvalidRoleException", e)
    ELSE Return([e EXCEPT !.role = v.f.n])

\* Executive.role setter
role_setter(e, v) ==
    IF ~InValues(v, Role) \/ ~IsInt(v) THEN Raise("InvalidRoleException", e)
    ELSE Return([e EXCEPT !.role = v.f.n])

\* Manager.department setter
department_setter(e, v) ==
    IF ~InValues(v, Department) \/ ~IsInt(v) THEN Raise("InvalidDepartmentException", e)
    ELSE Return([e EXCEPT !.department = v.f.n])

\* Permanent.hired_date setter
hired_date_setter(e, v) ==
    IF ~IsDateTime(v) THEN Raise("ValueError", e)
    ELSE Return([e EXCEPT !.hired_date = v.dt])

\* Temp.last_day setter
last_day_setter(e, v) ==
    IF ~IsDateTime(v) THEN Raise("ValueError", e)
    ELSE Return([e EXCEPT !.last_day = v.dt])

\* An attribute's setter.
Setter(attr, e, v) ==
    CASE attr = "name" -> name_setter(e, v)
      [] attr = "email" -> email_setter(e, v)
      [] attr = "image" -> image_setter(e, v)
      [] attr = "yearly" -> yearly_setter(e, v)
      [] attr = "hourly" -> hourly_setter(e, v)
      [] attr = "role" -> role_setter(e, v)
      [] attr = "department" -> department_setter(e, v)
      [] attr = "hired_date" -> hired_date_setter(e, v)
      [] attr = "last_day" -> last_day_setter(e, v)

\* A statement  self.<attr> = <conv>(<v>)  of a method body; conv is "" where the
\* value is assigned as it is.
Stmt(attr, conv, v) == [attr |-> attr, conv |-> conv, v |-> v]

\* The statement of Employee.__init__ that takes the identifier.
TakeId == Stmt("_id_number", "", PyNone)

\* float(v), int(v), strptime(v, ...) or v itself.
Convert(conv, v) ==
    CASE conv = "float" -> ToFloat(v)
      [] conv = "int" -> ToInt(v)
      [] conv = "strptime" -> StrpTime(v)
      [] OTHER -> Conv(NoExc, v)

\* What a method body has done when it ends: the exception that ended it (or
\* NoExc), the object, and Employee._current_id.
Built(x, e, cur) == [exc |-> x, e |-> e, cur |-> cur]

\* The statement as it would be without  Employee._current_id += 1.
AssignId_kept(e, cur) == [e |-> [e EXCEPT !.id_number = cur], cur |-> cur]

\* self._id_number = Employee._current_id; Employee._current_id += 1
AssignId(e, cur) == [e |-> [e EXCEPT !.id_number = cur], cur |-> cur + 1]

RECURSIVE RunStmts(_, _, _)

\* The body after a setter has ended with r.
Assigned(r, rest, cur) ==
    IF r.exc # NoExc THEN Built(r.exc, r.e, cur) ELSE RunStmts(rest, r.e, cur)

\* The body after the conversion of a statement's value has ended with c.
Converted(c, attr, e, rest, cur) ==
    IF c.exc # NoExc THEN Built(c.exc, e, cur)
    ELSE Assigned(Setter(attr, e, c.v), rest, cur)

\* The statements run in order on e; the first exception ends the body.
RunStmts(stmts, e, cur) ==
    IF stmts = << >> THEN Built(NoExc, e, cur)
    ELSE IF stmts[1] = TakeId
         THEN RunStmts(Tail(stmts), AssignId(e, cur).e, AssignId(e, cur).cur)
    ELSE Converted(Convert(stmts[1].conv, stmts[1].v), stmts[1].attr, e,
                   Tail(stmts), cur)

\* Employee.__init__: name, email, image, then the identifier is taken and the
\* class counter advanced.
Employee_init(name, email) ==
    << Stmt("name", "", name), Stmt("email", "", email),
       Stmt("image", "", PyStr(IMAGE_PLACEHOLDER)), TakeId >>

\* Salaried.__init__: super().__init__, then self.yearly = float(yearly).
Salaried_init(name, email, yearly) ==
    Employee_init(name, email) \o << Stmt("yearly", "float", yearly) >>

\* Hourly.__init__: super().__init__, then self.hourly = float(hourly_pay).
Hourly_init(name, email, hourly_pay) ==
    Employee_init(name, email) \o << Stmt("hourly", "float", hourly_pay) >>

\* Executive.__init__: super().__init__, then self.role = int(role).
Executive_init(name, email, yearly_amount, role) ==
    Salaried_init(name, email, yearly_amount) \o << Stmt("role", "int", role) >>

\* Manager.__init__: super().__init__, then self.department = int(department).
Manager_init(name, email, yearly, department) ==
    Salaried_init(name, email, yearly) \o << Stmt("department", "int", department) >>

\* Permanent.__init__: super().__init__, then self.hired_date = strptime(hired_date).
Permanent_init(name, email, hourly_pay, hired_date) ==
    Hourly_init(name, email, hourly_pay)
      \o << Stmt("hired_date", "strptime", hired_date) >>

\* Temp.__init__: super().__init__, then self.last_day = strptime(last_day).
Temp_init(name, email, hourly, last_day) ==
    Hourly_init(name, email, hourly) \o << Stmt("last_day", "strptime", last_day) >>

\* The body of cls.__init__(name, email, pay, attr).
InitBody(cls, name, email, pay, attr) ==
    CASE cls = "Executive" -> Executive_init(name, email, pay, attr)
      [] cls = "Manager" -> Manager_init(name, email, pay, attr)
      [] cls = "Permanent" -> Permanent_init(name, email, pay, attr)
      [] cls = "Temp" -> Temp_init(name, email, pay, attr)

\* cls(name, email, pay, attr) for a concrete class.
Construct(cls, name, email, pay, attr, cur) ==
    RunStmts(InitBody(cls, name, email, pay, attr), NewObject(cls), cur)

\* Salaried.calc_pay, Hourly.calc_pay
calc_pay(e) ==
    IF e.cls \in SalariedClasses THEN FDiv(e.yearly, 52) ELSE FMul(e.hourly, 40)

\* type(self).__name__ as text.
ClassText(cls) ==
    CASE cls = "Executive" -> <<"E", "x", "e", "c", "u", "t", "i", "v", "e">>
      [] cls = "Manager" -> <<"M", "a", "n", "a", "g", "e", "r">>
      [] cls = "Permanent" -> <<"P", "e", "r", "m", "a", "n", "e", "n", "t">>
      [] cls = "Temp" -> <<"T", "e", "m", "p">>

RECURSIVE Join(_)
\* The fields joined by commas.
Join(fields) ==
    IF Len(fields) = 0 THEN << >>
    ELSE IF Len(fields) = 1 THEN fields[1]
    ELSE fields[1] \o << "," >> \o Join(Tail(fields))

\* __repr__ of the four classes:
\* "<class>,<name>,<email>,<image>,<pay with two decimals>,<attribute>".
repr(e) ==
    Join(<< ClassText(e.cls), e.name, e.email, e.image,
            Format2f(IF e.cls \in SalariedClasses THEN e.yearly ELSE e.hourly),
            CASE e.cls = "Executive" -> DigitsOf(e.role)
              [] e.cls = "Manager" -> DigitsOf(e.department)
              [] e.cls = "Permanent" -> StrOfDateTime(e.hired_date)
              [] e.cls = "Temp" -> StrOfDateTime(e.last_day) >>)

(***************************************************************************)
(* gui.py: the file employee.data, create_employee and load_file.          *)
(* The file is a sequence of lines; the modelled texts hold no quote and   *)
(* no line break, so csv.reader cuts a line at its commas.                 *)
(***************************************************************************)
RECURSIVE SplitComma(_)
\* The row csv.reader yields for a line: [] for an empty line.
SplitComma(line) ==
    IF line = << >> THEN << >>
    ELSE LET commas == {i \in 1..Len(line) : line[i] = ","}
             p == IF commas = {} THEN Len(line) + 1
                  ELSE CHOOSE i \in commas : \A j \in commas : i <= j
         IN  IF commas = {} THEN << line >>
             ELSE IF p = Len(line) THEN << SubSeq(line, 1, p - 1), << >> >>
             ELSE << SubSeq(line, 1, p - 1) >> \o SplitComma(SubSeq(line, p + 1, Len(line)))

\* The class a type tag names, if any.
TaggedClasses(tag) == {c \in Classes : ClassText(c) = tag}

\* What create_employee returns or raises: the exception, whether an employee
\* was returned (None otherwise), the employee, the class counter after the call.
Created(x, some, e, cur) == [exc |-> x, some |-> some, e |-> e, cur |-> cur]

\* create_employee once the constructor has ended with b.
CreatedBy(b) == Created(b.exc, b.exc = NoExc, b.e, b.cur)

\* MainWindow.create_employee.  employee_data[k] of the source is row[k + 1].
create_employee(row, cur) ==
    IF Len(row) < 1 THEN Created("IndexError", FALSE, NewObject("Executive"), cur)
    ELSE IF TaggedClasses(row[1]) = {}
         THEN Created(NoExc, FALSE, NewObject("Executive"), cur)
    ELSE IF Len(row) < 6
         THEN Created("IndexError", FALSE, NewObject("Executive"), cur)
    ELSE CreatedBy(Construct(CHOOSE c \in TaggedClasses(row[1]) : TRUE,
                             PyStr(row[2]), PyStr(row[3]), PyStr(row[5]),
                             PyStr(row[6]), cur))

\* What load_file has done when its loop ends: the objects, _data, the class
\* counter, and the identifiers of the employees constructed so far.
Loaded(x, objs, dat, cur, made) ==
    [exc |-> x, emps |-> objs, data |-> dat, cur |-> cur, built |-> made]

RECURSIVE LoadRows(_, _, _, _, _)

\* load_file after emp.image = row[3] (result r): the employee is appended.
LoadAppend(r, cur, rest, objs, dat, made) ==
    IF r.exc # NoExc THEN Loaded(r.exc, objs, dat, cur, made)
    ELSE LoadRows(rest, Append(objs, r.e), Append(dat, Len(objs) + 1), cur, made)

\* load_file after create_employee(row) (result c): emp.image = row[3], which
\* raises AttributeError on None.
LoadImage(c, row, rest, objs, dat, made) ==
    IF c.exc # NoExc THEN Loaded(c.exc, objs, dat, c.cur, made)
    ELSE IF ~c.some THEN Loaded("AttributeError", objs, dat, c.cur, made)
    ELSE LoadAppend(image_setter(c.e, PyStr(row[4])), c.cur, rest, objs, dat,
                    Append(made, c.e.id_number))

\* One turn of the loop of load_file, for a row of the reader.
LoadRow(row, rest, objs, dat, cur, made) ==
    LoadImage(create_employee(row, cur), row, rest, objs, dat, made)

\* The loop of load_file over the remaining lines: each row's employee is
\* created, given the image of row[3] and appended to _data; the first exception
\* ends the loop with what was appended so far.
LoadRows(lines, objs, dat, cur, made) ==
    IF lines = << >> THEN Loaded(NoExc, objs, dat, cur, made)
    ELSE LoadRow(SplitComma(lines[1]), Tail(lines), objs, dat, cur, made)

\* The form class edit_employee makes for an object of class cls, with the
\* classes of ExecutiveForm and ManagerForm exchanged.
FormClass_swapped(cls) ==
    CASE cls = "Executive" -> "ManagerForm"
      [] cls = "Manager" -> "ExecutiveForm"
      [] cls = "Permanent" -> "PermanentForm"
      [] cls = "Temp" -> "TempForm"

(***************************************************************************)
(* gui.py: the edit forms.  Update runs the chain of update_employee       *)
(* methods of the form's class; each try block catches every exception and *)
(* adds an error row.                                                      *)
(***************************************************************************)
FormClass(cls) ==
    CASE cls = "Executive" -> "ExecutiveForm"
      [] cls = "Manager" -> "ManagerForm"
      [] cls = "Permanent" -> "PermanentForm"
      [] cls = "Temp" -> "TempForm"

\* The outcome of update_employee, from the end b of its body: the employee,
\* whether the form was hidden (setVisible(False) is the last statement),
\* whether an except clause added an error row, and the exception that leaves
\* the method: none, a bare except closes every try block.
Updated_hides(b) ==
    [e |-> b.e, hidden |-> TRUE, row |-> b.exc # NoExc, exc |-> NoExc]

Updated(b) ==
    [e |-> b.e, hidden |-> b.exc = NoExc, row |-> b.exc # NoExc, exc |-> NoExc]

\* EmployeeForm.update_employee: name, email, image from the line edits.
EmployeeForm_update(name, email, image) ==
    << Stmt("name", "", name), Stmt("email", "", email), Stmt("image", "", image) >>

\* SalariedForm.update_employee: yearly from the pay edit, then the base class.
SalariedForm_update(pay, name, email, image) ==
    << Stmt("yearly", "", pay) >> \o EmployeeForm_update(name, email, image)

\* HourlyForm.update_employee: hourly from the pay edit, then the base class.
HourlyForm_update(pay, name, email, image) ==
    << Stmt("hourly", "", pay) >> \o EmployeeForm_update(name, email, image)

\* ExecutiveForm.update_employee: the role is currentIndex() + 1.
ExecutiveForm_update(idx, pay, name, email, image) ==
    << Stmt("role", "", PyInt(idx + 1)) >>
      \o SalariedForm_update(pay, name, email, image)

\* ManagerForm.update_employee: the department is currentIndex() + 1.
ManagerForm_update(idx, pay, name, email, image) ==
    << Stmt("department", "", PyInt(idx + 1)) >>
      \o SalariedForm_update(pay, name, email, image)

\* The statements update_employee of a form class runs inside its try blocks;
\* every block catches every exception, so the first one ends them all.
UpdateBody(formcls, idx, pay, name, email, image) ==
    CASE formcls = "ExecutiveForm" -> ExecutiveForm_update(idx, pay, name, email, image)
      [] formcls = "ManagerForm" -> ManagerForm_update(idx, pay, name, email, image)
      [] OTHER -> HourlyForm_update(pay, name, email, image)

\* update_employee of a form of class formcls that edits e.
update_employee(formcls, e, idx, pay, name, email, image) ==
    Updated(RunStmts(UpdateBody(formcls, idx, pay, name, email, image), e, 0))

\* The entries of the combo box of the form that edits an object of class cls.
ComboIndexes(cls) ==
    CASE cls = "Executive" -> 0..2
      [] cls = "Manager" -> 0..4
      [] OTHER -> {0}

\* What the Update button finds in the fields of a form: the combo box index
\* and the texts of the line edits.
Fields(idx, pay, name, email, image) ==
    [idx |-> idx, pay |-> pay, name |-> name, email |-> email, image |-> image]

\* fill_in of the form made for the employee e, through the overrides of its
\* class: what the fields hold when it has run.
fill_in(e) ==
    [id    |-> DigitsOf(e.id_number),
     name  |-> e.name,
     email |-> e.email,
     image |-> e.image,
     pay   |-> IF e.cls \in SalariedClasses THEN Format2f(e.yearly)
               ELSE StrOfFloat(e.hourly),
     idx   |-> CASE e.cls = "Executive" -> e.role - 1
                 [] e.cls = "Manager" -> e.department - 1
                 [] OTHER -> 0,
     date  |-> CASE e.cls = "Temp" -> StrOfDateTime(e.last_day)
                 [] e.cls = "Permanent" -> StrOfDateTime(e.hired_date)
                 [] OTHER -> << >>]

(***************************************************************************)
(* The values the operations are called with.  A universe names, for each  *)
(* argument, the values it is drawn from: Sys is small and serves the      *)
(* runs with several employees, Wide serves the runs about one employee.   *)
(***************************************************************************)
Date1 == DT(2023, 3, 2, 12, 11, 50, 0)
Date2 == DT(2024, 2, 29, 0, 0, 0, 5)

\* Lines of employee.data.
LineExecutive == Join(<<<<"E", "x", "e", "c", "u", "t", "i", "v", "e">>, <<"a">>, <<"u", "@", "a", "c", "m", "e", "-", "m", "a", "c", "h", "i", "n", "i", "n", "g", ".", "c", "o", "m">>, IMAGE_PLACEHOLDER, <<"6", "0", "0", "0", "0", ".", "0", "0">>, <<"1">>>>)
LineManager == Join(<<<<"M", "a", "n", "a", "g", "e", "r">>, <<"a">>, <<"u", "@", "a", "c", "m", "e", "-", "m", "a", "c", "h", "i", "n", "i", "n", "g", ".", "c", "o", "m">>, IMAGE_PLACEHOLDER, <<"6", "0", "0", "0", "0", ".", "0", "0">>, <<"1">>>>)
LinePermanent == Join(<<<<"P", "e", "r", "m", "a", "n", "e", "n", "t">>, <<"a">>, <<"u", "@", "a", "c", "m", "e", "-", "m", "a", "c", "h", "i", "n", "i", "n", "g", ".", "c", "o", "m">>, IMAGE_PLACEHOLDER, <<"2", "0", ".", "0", "0">>, <<"2", "0", "2", "3", "-", "0", "3", "-", "0", "2", " ", "1", "2", ":", "1", "1", ":", "5", "0">>>>)
LineTemp == Join(<<<<"T", "e", "m", "p">>, <<"a">>, <<"u", "@", "a", "c", "m", "e", "-", "m", "a", "c", "h", "i", "n", "i", "n", "g", ".", "c", "o", "m">>, IMAGE_PLACEHOLDER, <<"2", "0", ".", "0", "0">>, <<"2", "0", "2", "3", "-", "0", "3", "-", "0", "2", " ", "1", "2", ":", "1", "1", ":", "5", "0">>>>)
\* A salary the yearly setter rejects, after the identifier was taken.
LineLowSalary == Join(<<<<"E", "x", "e", "c", "u", "t", "i", "v", "e">>, <<"a">>, <<"u", "@", "a", "c", "m", "e", "-", "m", "a", "c", "h", "i", "n", "i", "n", "g", ".", "c", "o", "m">>, IMAGE_PLACEHOLDER, <<"1", "0", "0", ".", "0", "0">>, <<"1">>>>)
\* A type tag create_employee does not know.
LineIntern == Join(<<<<"I", "n", "t", "e", "r", "n">>, <<"a">>, <<"u", "@", "a", "c", "m", "e", "-", "m", "a", "c", "h", "i", "n", "i", "n", "g", ".", "c", "o", "m">>, IMAGE_PLACEHOLDER, <<"2", "0", ".", "0", "0">>, <<"1">>>>)

Sys ==
    [names  |-> {PyStr(<<"a">>), PyStr(<< >>)},
     emails |-> {PyStr(<<"u", "@", "a", "c", "m", "e", "-", "m", "a", "c", "h", "i", "n", "i", "n", "g", ".", "c", "o", "m">>), PyStr(<<"u">>)},
     images |-> {PyStr(IMAGE_PLACEHOLDER), PyStr(<< >>)},
     yearly |-> {PyStr(<<"6", "0", "0", "0", "0">>), PyStr(<<"1", "0", "0">>)},
     hourly |-> {PyStr(<<"2", "0">>), PyStr(<<"5">>)},
     roles  |-> {PyInt(2), PyInt(4)},
     depts  |-> {PyInt(1), PyInt(6)},
     dates  |-> {PyDateTime(Date1), PyNone},
     attrs  |-> {PyStr(<<"1">>), PyStr(<<"9">>), PyStr(<<"2", "0", "2", "3", "-", "0", "3", "-", "0", "2", " ", "1", "2", ":", "1", "1", ":", "5", "0">>)},
     combo  |-> {0},
     ids    |-> {PyInt(7)},
     files  |-> {<< >>, << LineExecutive >>, << LineTemp, LineManager >>,
                 << LinePermanent, LineLowSalary >>, << LineIntern >>}]

Wide ==
    [names  |-> {PyStr(<<"a">>), PyStr(<<"b">>), PyStr(<< >>), PyInt(5), PyNone},
     emails |-> {PyStr(<<"u", "@", "a", "c", "m", "e", "-", "m", "a", "c", "h", "i", "n", "i", "n", "g", ".", "c", "o", "m">>), PyStr(<<"@", "a", "c", "m", "e", "-", "m", "a", "c", "h", "i", "n", "i", "n", "g", ".", "c", "o", "m", "x">>), PyStr(<<"@", "a", "c", "m", "e", "-", "m", "a", "c", "h", "i", "n", "i", "n", "g", ".", "c", "o">>), PyStr(<<"u">>), PyStr(<< >>), PyNone},
     images |-> {PyStr(<<"i">>), PyStr(<< >>), PyNone},
     yearly |-> {PyStr(<<"5", "0", "0", "0", "0">>), PyStr(<<"5", "0", "0", "0", "0", ".", "0", "1">>), PyStr(<<"4", "9", "9", "9", "9", ".", "9", "9">>), PyStr(<<"6", "0", "0", "0", "0">>), PyStr(<<"n", "a", "n">>), PyStr(<<"i", "n", "f">>),
                 PyStr(<<"a", "b", "c">>), PyStr(<< >>), PyInt(50000), PyInt(60000),
                 PyFloat(Fin(5000001, 100)), PyBool(TRUE), PyNone},
     hourly |-> {PyStr(<<"1", "4", ".", "9", "9">>), PyStr(<<"1", "5", ".", "0", "0">>), PyStr(<<"2", "0", ".", "5">>), PyStr(<<"9", "9", ".", "9", "9">>), PyStr(<<"1", "0", "0", ".", "0", "0">>), PyStr(<<"n", "a", "n">>),
                 PyStr(<<"i", "n", "f">>), PyStr(<<"a", "b", "c">>), PyInt(15), PyInt(100),
                 PyFloat(Fin(9999, 100)), PyNone},
     roles  |-> {PyInt(0), PyInt(1), PyInt(2), PyInt(3), PyInt(4), PyBool(TRUE),
                 PyFloat(Fin(1, 1)), PyStr(<<"1">>), PyNone},
     depts  |-> {PyInt(0), PyInt(1), PyInt(2), PyInt(3), PyInt(4), PyInt(5),
                 PyInt(6), PyBool(TRUE), PyFloat(Fin(2, 1)), PyStr(<<"1">>), PyNone},
     dates  |-> {PyDateTime(Date1), PyDateTime(Date2), PyStr(<<"2", "0", "2", "3", "-", "0", "3", "-", "0", "2", " ", "1", "2", ":", "1", "1", ":", "5", "0">>), PyNone},
     attrs  |-> {PyStr(<<"1">>), PyStr(<<"3">>), PyStr(<<"5">>), PyStr(<<"6">>), PyStr(<<"0">>), PyStr(<<"a", "b", "c">>), PyInt(2),
                 PyNone, PyStr(<<"2", "0", "2", "3", "-", "0", "3", "-", "0", "2", " ", "1", "2", ":", "1", "1", ":", "5", "0">>), PyStr(<<"2", "0", "2", "3", "-", "0", "2", "-", "3", "0", " ", "1", "2", ":", "1", "1", ":", "5", "0">>), PyDateTime(Date1)},
     combo  |-> 0..4,
     ids    |-> {PyInt(7), PyNone},
     files  |-> {<< LineExecutive >>, << LineTemp >>}]

\* What text() of a line edit can return: the texts among the values.
Texts(vals) == {v \in vals : IsStr(v)}

(***************************************************************************)
(* The state.                                                              *)
(***************************************************************************)
VARIABLES
    current_id,   \* Employee._current_id
    emps,         \* the employee objects constructed and still referenced, oldest first
    data,         \* MainWindow._data: positions in emps
    window,       \* whether the MainWindow has been constructed
    file,         \* the lines of ./employee.data
    form,         \* MainWindow._employee_form
    last,         \* the last call: operation, assigned value, exception, result
    built         \* the id_number of every employee a constructor returned, in order

vars == << current_id, emps, data, window, file, form, last, built >>

NoForm == [cls |-> "none", emp |-> 0, visible |-> FALSE, rows |-> 0]

Last(op, arg, exc, ret) == [op |-> op, arg |-> arg, exc |-> exc, ret |-> ret]

\* A fresh process: employee.py imported, no window yet, an empty employee.data.
Init ==
    /\ current_id = 1
    /\ emps = << >>
    /\ data = << >>
    /\ window = FALSE
    /\ file = << >>
    /\ form = NoForm
    /\ last = Last("import", PyNone, NoExc, Unset)
    /\ built = << >>

(***************************************************************************)
(* Direct calls on the classes of employee.py.                             *)
(***************************************************************************)
\* The state after cls(...) has ended with b: the object exists when __init__
\* returns.
Constructed(cls, b) ==
    /\ current_id' = b.cur
    /\ emps' = IF b.exc = NoExc THEN Append(emps, b.e) ELSE emps
    /\ last' = Last(cls, PyNone, b.exc, Unset)
    /\ built' = IF b.exc = NoExc THEN Append(built, b.e.id_number) ELSE built
    /\ UNCHANGED << data, window, file, form >>

\* cls(name, email, pay, attr)
ConstructCall(cls, name, email, pay, attr) ==
    Constructed(cls, Construct(cls, name, email, pay, attr, current_id))

\* emps[i].<op> = v, with r the setter's result.
Assign(i, op, v, r) ==
    /\ emps' = [emps EXCEPT ![i] = r.e]
    /\ last' = Last(op, v, r.exc, Unset)
    /\ UNCHANGED << current_id, data, window, file, form, built >>

Salaried(i) == emps[i].cls \in SalariedClasses
Hourly(i) == emps[i].cls \in HourlyClasses

name_call(i, v) == Assign(i, "name", v, name_setter(emps[i], v))
email_call(i, v) == Assign(i, "email", v, email_setter(emps[i], v))
image_call(i, v) == Assign(i, "image", v, image_setter(emps[i], v))
yearly_call(i, v) == Salaried(i) /\ Assign(i, "yearly", v, yearly_setter(emps[i], v))
hourly_call(i, v) == Hourly(i) /\ Assign(i, "hourly", v, hourly_setter(emps[i], v))

role_call(i, v) ==
    /\ emps[i].cls = "Executive"
    /\ Assign(i, "role", v, role_setter(emps[i], v))

department_call(i, v) ==
    /\ emps[i].cls = "Manager"
    /\ Assign(i, "department", v, department_setter(emps[i], v))

hired_date_call(i, v) ==
    /\ emps[i].cls = "Permanent"
    /\ Assign(i, "hired_date", v, hired_date_setter(emps[i], v))

last_day_call(i, v) ==
    /\ emps[i].cls = "Temp"
    /\ Assign(i, "last_day", v, last_day_setter(emps[i], v))

\* The id_number setter the source keeps in a comment (employee.py, 98-109).
id_number_setter_enabled(e, v) ==
    IF ~IsInt(v) \/ v.f.n < 0 THEN Raise("ValueError", e)
    ELSE Return([e EXCEPT !.id_number = v.f.n])

\* The result of emps[i].id_number = v: the property has no setter.
id_number_setter(e, v) == Raise("AttributeError", e)

id_number_call(i, v) == Assign(i, "id_number", v, id_number_setter(emps[i], v))

\* emps[i].calc_pay()
calc_pay_call(i) ==
    /\ last' = Last("calc_pay", PyNone, NoExc, calc_pay(emps[i]))
    /\ UNCHANGED << current_id, emps, data, window, file, form, built >>

(***************************************************************************)
(* The main window.                                                        *)
(***************************************************************************)
\* The state after MainWindow.__init__ whose load_file() has ended with r: when
\* load_file raises, the window is not constructed and the employees it had
\* loaded are dropped.
WindowBuilt(r) ==
    /\ current_id' = r.cur
    /\ window' = (r.exc = NoExc)
    /\ emps' = IF r.exc = NoExc THEN r.emps ELSE emps
    /\ data' = IF r.exc = NoExc THEN r.data ELSE << >>
    /\ last' = Last("MainWindow", PyNone, r.exc, Unset)
    /\ built' = r.built
    /\ UNCHANGED << file, form >>

\* MainWindow.__init__: _data = [] and load_file().
MainWindow_init ==
    /\ ~window
    /\ WindowBuilt(LoadRows(file, emps, << >>, current_id, built))

\* The state after load_file has ended with r: an exception leaves _data with
\* the rows appended before it.
FileLoaded(r) ==
    /\ current_id' = r.cur
    /\ emps' = r.emps
    /\ data' = r.data
    /\ last' = Last("load_file", PyNone, r.exc, Unset)
    /\ built' = r.built
    /\ UNCHANGED << window, file, form >>

\* MainWindow.load_file from the Load menu: the rows are appended to _data.
load_file ==
    /\ window
    /\ FileLoaded(LoadRows(file, emps, data, current_id, built))

\* MainWindow.save_file: one line per employee of _data.
save_file ==
    /\ window
    /\ file' = [k \in 1..Len(data) |-> repr(emps[data[k]])]
    /\ last' = Last("save_file", PyNone, NoExc, Unset)
    /\ UNCHANGED << current_id, emps, data, window, form, built >>

\* ./employee.data is replaced from outside the program.
write_file(lines) ==
    /\ file' = lines
    /\ last' = Last("write_file", PyNone, NoExc, Unset)
    /\ UNCHANGED << current_id, emps, data, window, form, built >>

\* MainWindow.edit_employee with row sel of the table selected (0: no selection).
\* The forms are application modal: no other form is showing.
edit_employee(sel) ==
    /\ window
    /\ ~form.visible
    /\ form' = IF sel = 0 THEN form
               ELSE [cls |-> FormClass(emps[data[sel]].cls), emp |-> data[sel],
                     visible |-> TRUE, rows |-> 0]
    /\ last' = Last("edit_employee", PyInt(sel), NoExc,
                     IF sel = 0 THEN Unset ELSE fill_in(emps[data[sel]]))
    /\ UNCHANGED << current_id, emps, data, window, file, built >>

\* The state after update_employee of the showing form, whose fields held
\* fields, has ended with r.
FormUpdated(r, fields) ==
    /\ emps' = [emps EXCEPT ![form.emp] = r.e]
    /\ form' = [form EXCEPT !.visible = ~r.hidden,
                            !.rows = IF r.row THEN @ + 1 ELSE @]
    /\ last' = Last("update_employee", fields, r.exc, Unset)
    /\ UNCHANGED << current_id, data, window, file, built >>

\* The Update button of the showing form, with the texts and the combo box
\* index the fields hold.
update_click(idx, pay, name, email, image) ==
    /\ form.visible
    /\ form.rows < MaxErrRows
    /\ FormUpdated(update_employee(form.cls, emps[form.emp], idx, pay, name,
                                   email, image),
                   Fields(idx, pay, name, email, image))

(***************************************************************************)
(* The steps, with the values drawn from a universe U.                     *)
(***************************************************************************)
Objects == 1..Len(emps)

ConstructStep(U, cap, ids) ==
    /\ Len(emps) < cap
    /\ current_id <= ids
    /\ \E cls \in Classes, name \in U.names, email \in U.emails, attr \in U.attrs :
         \E pay \in (IF cls \in SalariedClasses THEN U.yearly ELSE U.hourly) :
            ConstructCall(cls, name, email, pay, attr)

NameStep(U) == \E i \in Objects, v \in U.names : name_call(i, v)
EmailStep(U) == \E i \in Objects, v \in U.emails : email_call(i, v)
ImageStep(U) == \E i \in Objects, v \in U.images : image_call(i, v)
YearlyStep(U) == \E i \in Objects, v \in U.yearly : yearly_call(i, v)
HourlyStep(U) == \E i \in Objects, v \in U.hourly : hourly_call(i, v)
RoleStep(U) == \E i \in Objects, v \in U.roles : role_call(i, v)
DepartmentStep(U) == \E i \in Objects, v \in U.depts : department_call(i, v)
HiredDateStep(U) == \E i \in Objects, v \in U.dates : hired_date_call(i, v)
LastDayStep(U) == \E i \in Objects, v \in U.dates : last_day_call(i, v)
IdNumberStep(U) == \E i \in Objects, v \in U.ids : id_number_call(i, v)
CalcPayStep == \E i \in Objects : calc_pay_call(i)

\* The loads are followed while the objects and identifiers they need are
\* within the bounds.
Room(cap, ids) ==
    /\ Len(emps) + Len(file) <= cap
    /\ current_id + Len(file) - 1 <= ids

MainWindowStep(cap, ids) == Room(cap, ids) /\ MainWindow_init
LoadFileStep(cap, ids) == Room(cap, ids) /\ load_file
SaveFileStep == save_file
WriteFileStep(U) == \E lines \in U.files : write_file(lines)
EditStep == \E sel \in 0..Len(data) : edit_employee(sel)

UpdateStep(U) ==
    /\ form.visible
    /\ \E idx \in U.combo \cap ComboIndexes(emps[form.emp].cls),
          name \in Texts(U.names), email \in Texts(U.emails),
          image \in Texts(U.images) :
         \E pay \in Texts(IF Salaried(form.emp) THEN U.yearly ELSE U.hourly) :
            update_click(idx, pay, name, email, image)

\* The program with several employees.
Next ==
    \/ ConstructStep(Sys, MaxEmps, MaxId)
    \/ NameStep(Sys)
    \/ EmailStep(Sys)
    \/ ImageStep(Sys)
    \/ YearlyStep(Sys)
    \/ HourlyStep(Sys)
    \/ RoleStep(Sys)
    \/ DepartmentStep(Sys)
    \/ HiredDateStep(Sys)
    \/ LastDayStep(Sys)
    \/ IdNumberStep(Sys)
    \/ CalcPayStep
    \/ MainWindowStep(MaxEmps, MaxId)
    \/ LoadFileStep(MaxEmps, MaxId)
    \/ SaveFileStep
    \/ WriteFileStep(Sys)
    \/ EditStep
    \/ UpdateStep(Sys)

Spec == Init /\ [][Next]_vars

(***************************************************************************)
(* The life of one employee, with the wide range of values.                *)
(***************************************************************************)
\* What the fields of a form are filled with: any pay text, and the texts of
\* Sys for the fields of the base class.
FormTexts == [Wide EXCEPT !.names = Sys.names, !.emails = Sys.emails,
                          !.images = Sys.images]

\* A fresh process that finds some employee.data of one line, or none.
InitFields ==
    /\ current_id = 1
    /\ emps = << >>
    /\ data = << >>
    /\ window = FALSE
    /\ file \in Wide.files \cup {<< >>}
    /\ form = NoForm
    /\ last = Last("import", PyNone, NoExc, Unset)
    /\ built = << >>

NextFields ==
    \/ ConstructStep(Wide, MaxFieldEmps, MaxFieldEmps)
    \/ NameStep(Wide)
    \/ EmailStep(Wide)
    \/ ImageStep(Wide)
    \/ YearlyStep(Wide)
    \/ HourlyStep(Wide)
    \/ RoleStep(Wide)
    \/ DepartmentStep(Wide)
    \/ HiredDateStep(Wide)
    \/ LastDayStep(Wide)
    \/ IdNumberStep(Wide)
    \/ CalcPayStep
    \/ MainWindowStep(MaxFieldEmps, MaxFieldEmps)
    \/ EditStep
    \/ UpdateStep(FormTexts)

SpecFields == InitFields /\ [][NextFields]_vars

(***************************************************************************)
(* The file: one employee that is loaded, edited and saved, with values    *)
(* that the two decimals and the commas of a saved line do not carry.      *)
(***************************************************************************)
Round ==
    [names  |-> {PyStr(<<"a">>), PyStr(<<"a", ",", "b">>)},
     emails |-> {PyStr(<<"u", "@", "a", "c", "m", "e", "-", "m", "a", "c", "h", "i", "n", "i", "n", "g", ".", "c", "o", "m">>)},
     images |-> {PyStr(IMAGE_PLACEHOLDER), PyStr(<<"i">>)},
     yearly |-> {PyStr(<<"6", "0", "0", "0", "0">>), PyStr(<<"6", "0", "0", "0", "0", ".", "1", "2", "6">>), PyStr(<<"5", "0", "0", "0", "0", ".", "0", "0", "1">>)},
     hourly |-> {PyStr(<<"2", "0">>), PyStr(<<"2", "0", ".", "5">>)},
     roles  |-> {PyInt(1), PyInt(3)},
     depts  |-> {PyInt(1), PyInt(5)},
     dates  |-> {PyDateTime(Date1), PyDateTime(Date2)},
     attrs  |-> {PyStr(<<"1">>)},
     combo  |-> {0, 2},
     ids    |-> {PyInt(7)},
     files  |-> {<< LineExecutive >>, << LineManager >>, << LinePermanent >>,
                 << LineTemp >>}]

\* A fresh process that finds an employee.data of one line.
InitFile ==
    /\ current_id = 1
    /\ emps = << >>
    /\ data = << >>
    /\ window = FALSE
    /\ file \in Round.files
    /\ form = NoForm
    /\ last = Last("import", PyNone, NoExc, Unset)
    /\ built = << >>

NextFile ==
    \/ MainWindowStep(MaxFieldEmps, MaxFieldEmps)
    \/ NameStep(Round)
    \/ ImageStep(Round)
    \/ YearlyStep(Round)
    \/ HourlyStep(Round)
    \/ RoleStep(Round)
    \/ DepartmentStep(Round)
    \/ HiredDateStep(Round)
    \/ LastDayStep(Round)
    \/ SaveFileStep
    \/ EditStep
    \/ UpdateStep(Round)

SpecFile == InitFile /\ [][NextFile]_vars

(***************************************************************************)
(* The properties.                                                         *)
(***************************************************************************)
SetterOps ==
    {"name", "email", "image", "yearly", "hourly", "role", "department",
     "hired_date", "last_day"}

\* v denotes a number strictly greater than 50,000.
AboveMinYearly(v) ==
    ToFloat(v).exc = NoExc /\ FLt(Fin(50000, 1), ToFloat(v).v.f)

\* v denotes a number within [15.00, 99.99].
WithinHourly(v) ==
    /\ ToFloat(v).exc = NoExc
    /\ FLe(Fin(15, 1), ToFloat(v).v.f)
    /\ FLe(ToFloat(v).v.f, Fin(9999, 100))

\* v is an integer of the set S (a bool is an integer of Python: True is 1).
IntegerIn(v, S) == IsInt(v) /\ v.f.k = "fin" /\ v.f.d = 1 /\ v.f.n \in S

\* v is a non-empty string.
NonEmptyStr(v) == IsStr(v) /\ v.s # << >>

DomainText ==
    <<"@", "a", "c", "m", "e", "-", "m", "a", "c", "h", "i", "n", "i", "n", "g",
      ".", "c", "o", "m">>

\* C1: every Salaried employee has an annual amount strictly greater than
\* 50,000, and a call of the yearly setter returns exactly when its value is a
\* number strictly greater than 50,000.
C1_YearlyAbove50000 ==
    /\ \A i \in Objects : Salaried(i) => FLt(Fin(50000, 1), emps[i].yearly)
    /\ last.op = "yearly" => (last.exc = NoExc <=> AboveMinYearly(last.arg))

C3_EmailEndsWithDomain ==
    /\ \A i \in Objects :
         emps[i].email # << >> /\ EndsWith(emps[i].email, DomainText)
    /\ (last.op = "email" /\ last.exc = NoExc)
         => (NonEmptyStr(last.arg) /\ EndsWith(last.arg.s, DomainText))

\* C3: every employee's email is a non-empty string that contains
\* '@acme-machining.com', anywhere in it; a call of the email setter returns
\* exactly when its value is such a string, so '@acme-machining.comx' is
\* accepted and '@acme-machining.co' is rejected.
C3_EmailContainsDomain ==
    /\ \A i \in Objects :
         emps[i].email # << >> /\ Contains(emps[i].email, DomainText)
    /\ last.op = "email"
         => (last.exc = NoExc
               <=> (NonEmptyStr(last.arg) /\ Contains(last.arg.s, DomainText)))
    /\ (last.op = "email" /\ last.arg = PyStr(DomainText \o <<"x">>))
         => last.exc = NoExc
    /\ (last.op = "email" /\ last.arg = PyStr(SubSeq(DomainText, 1, 18)))
         => last.exc = "ValueError"

\* An employee whose email has just been set to a text that holds the domain
\* before its end.
C3_Witness ==
    /\ last.op = "email" /\ last.exc = NoExc
    /\ last.arg = PyStr(DomainText \o <<"x">>)
    /\ \E i \in Objects : emps[i].email = DomainText \o <<"x">>

\* C4: every employee's name is a non-empty string; a call of the name setter
\* returns exactly when its value is a non-empty string, a constructor returns
\* only an employee with such a name, and a name changes only in a call of the
\* name setter, directly or from the Update button of a form.
C4_NameNonEmpty ==
    /\ [](\A i \in Objects : emps[i].name # << >>)
    /\ [](last.op = "name" => (last.exc = NoExc <=> NonEmptyStr(last.arg)))
    /\ [][\A i \in Objects :
            emps'[i].name # emps[i].name
              => last'.op \in {"name", "update_employee"}]_vars

\* The name setter has just refused the empty string and the name is as before.
C4_Witness ==
    /\ last.op = "name" /\ last.exc = "ValueError"
    /\ last.arg = PyStr(<< >>)
    /\ \E i \in Objects : emps[i].name = <<"b">>

C6_IdsIncrease ==
    /\ \A i, j \in Objects : i # j => emps[i].id_number # emps[j].id_number
    /\ \A i, j \in Objects : i < j => emps[i].id_number < emps[j].id_number
    /\ \A i, j \in 1..Len(built) : i < j => built[i] < built[j]

\* Two employees exist and a constructor call failed between them.
C6_Witness ==
    /\ Len(emps) = 2 /\ Len(built) = 2
    /\ emps[1].id_number = 1 /\ emps[2].id_number = 3

\* C7: no step changes the id_number of an existing employee (setter calls
\* accepted or rejected, form updates, calc_pay, save_file, loads and further
\* constructions), and an assignment to id_number raises.
C7_IdImmutable ==
    /\ [][\A i \in Objects : emps'[i].id_number = emps[i].id_number]_vars
    /\ [](last.op = "id_number" => last.exc = "AttributeError")

\* An assignment to id_number has just been refused and the identifier stands.
C7_Witness ==
    /\ last.op = "id_number" /\ last.exc = "AttributeError"
    /\ last.arg = PyInt(7)
    /\ \E i \in Objects : emps[i].id_number = i

\* C8: the k-th employee a constructor returns has id_number k.
C8_IdsSequential == \A k \in 1..Len(built) : built[k] = k

\* What the documented constraint of a setter admits.
ValidValue(op, v) ==
    CASE op = "name" -> NonEmptyStr(v)
      [] op = "email" -> NonEmptyStr(v) /\ Contains(v.s, DomainText)
      [] op = "image" -> NonEmptyStr(v)
      [] op = "yearly" -> AboveMinYearly(v)
      [] op = "hourly" -> WithinHourly(v)
      [] op = "role" -> IntegerIn(v, 1..3)
      [] op = "department" -> IntegerIn(v, 1..5)
      [] op = "hired_date" -> IsDateTime(v)
      [] op = "last_day" -> IsDateTime(v)

\* C9: a setter called with a value its constraint does not admit raises, and
\* every field of every employee keeps its value.
C9_InvalidRejectedUnchanged ==
    [][(last'.op \in SetterOps /\ ~ValidValue(last'.op, last'.arg))
         => (last'.exc # NoExc /\ emps' = emps)]_vars

\* C10: calc_pay returns yearly / 52 for a Salaried and hourly * 40 for an
\* Hourly employee, which lies above 50,000 / 52 and within [600.00, 3999.60],
\* and the call changes no field of any employee.
C10_WeeklyPay ==
    /\ [](last.op = "calc_pay"
            => \E i \in Objects :
                 IF Salaried(i)
                 THEN /\ last.ret = FDiv(emps[i].yearly, 52)
                      /\ FLt(FDiv(Fin(50000, 1), 52), last.ret)
                 ELSE /\ last.ret = FMul(emps[i].hourly, 40)
                      /\ FLe(Fin(600, 1), last.ret)
                      /\ FLe(last.ret, Fin(19998, 5)))
    /\ [][last'.op = "calc_pay" => emps' = emps]_vars

\* Two employees agree in concrete type, name, email, image path, pay and
\* subtype attribute.
SameRecord(a, b) ==
    /\ a.cls = b.cls /\ a.name = b.name /\ a.email = b.email
    /\ a.image = b.image /\ a.yearly = b.yearly /\ a.hourly = b.hourly
    /\ a.role = b.role /\ a.department = b.department
    /\ a.hired_date = b.hired_date /\ a.last_day = b.last_day

\* A load into an empty list that ended with r gave the employees of _data back.
RoundTrip(r) ==
    /\ r.exc = NoExc
    /\ Len(r.data) = Len(data)
    /\ \A k \in 1..Len(data) : SameRecord(r.emps[r.data[k]], emps[data[k]])

\* C11: once save_file has written the employees of _data, load_file into an
\* empty list succeeds on that file and yields as many employees, in the same
\* order, each with the same type, name, email, image, pay and subtype attribute.
C11_SaveLoadRoundTrip ==
    last.op = "save_file" => RoundTrip(LoadRows(file, << >>, << >>, 1, << >>))

\* The employee e is the one the record row of the file describes.
OfRecord(e, row) ==
    /\ Len(row) = 6
    /\ ClassText(e.cls) = row[1] /\ e.name = row[2] /\ e.email = row[3]
    /\ e.image = row[4]
    /\ ToFloat(PyStr(row[5])).v.f = (IF e.cls \in {"Executive", "Manager"}
                                    THEN e.yearly ELSE e.hourly)

\* C12: after a load_file that returned, at start-up or from the Load menu,
\* _data holds exactly one employee per record of the file, in file order.
C12_DataIsTheFile ==
    (last.op \in {"MainWindow", "load_file"} /\ last.exc = NoExc)
      => /\ Len(data) = Len(file)
         /\ \A k \in 1..Len(file) : OfRecord(emps[data[k]], SplitComma(file[k]))

\* create_employee, which ended with c on the record row, returned (if it did
\* not raise) an employee of the class the tag in field 0 names, built from the
\* fields 1, 2 and 4.
ReturnsEmployee(row, c) ==
    c.exc = NoExc
      => /\ c.some
         /\ ClassText(c.e.cls) = row[1]
         /\ c.e.name = row[2] /\ c.e.email = row[3]
         /\ ToFloat(PyStr(row[5])).v.f = (IF c.e.cls \in {"Executive", "Manager"}
                                         THEN c.e.yearly ELSE c.e.hourly)

\* C13: for every record of a file that is loaded, create_employee returns an
\* instance of the concrete class the type tag selects, and never a value
\* that is no employee.
C13_CreateReturnsEmployee ==
    last.op \in {"MainWindow", "load_file"}
      => \A k \in 1..Len(file) :
           ReturnsEmployee(SplitComma(file[k]),
                           create_employee(SplitComma(file[k]), current_id))

\* The values entered in the fields f of a form of class formcls, each with
\* the attribute of the employee it is for.
Entered(formcls, f) ==
    {<<"name", f.name>>, <<"email", f.email>>, <<"image", f.image>>}
      \cup (IF formcls \in {"ExecutiveForm", "ManagerForm"}
            THEN {<<"yearly", f.pay>>} ELSE {<<"hourly", f.pay>>})
      \cup (CASE formcls = "ExecutiveForm" -> {<<"role", PyInt(f.idx + 1)>>}
              [] formcls = "ManagerForm" -> {<<"department", PyInt(f.idx + 1)>>}
              [] OTHER -> {})

\* The setter of the employee e accepts every value entered in the fields f.
AllAccepted(formcls, e, f) ==
    \A p \in Entered(formcls, f) : Setter(p[1], e, p[2]).exc = NoExc

\* Every attribute of after that has a field in f is what its setter makes of
\* the value entered there.
AllEntered(formcls, e, f, after) ==
    \A p \in Entered(formcls, f) : after[p[1]] = Setter(p[1], e, p[2]).e[p[1]]

\* C14: a press of Update is all or nothing: if the setter of some entered
\* field rejects its value, no field of any employee changes; if every
\* setter accepts, every field of the edited employee is the entered value.
C14_UpdateAllOrNothing ==
    [][last'.op = "update_employee"
         => IF AllAccepted(form.cls, emps[form.emp], last'.arg)
            THEN AllEntered(form.cls, emps[form.emp], last'.arg, emps'[form.emp])
            ELSE emps' = emps]_vars

\* C15: a press of Update hides the form exactly when the setter of every
\* entered field accepts its value; when some setter raises, the form stays
\* visible and has one error label more; no exception leaves update_employee.
C15_UpdateClosesIffAccepted ==
    [][last'.op = "update_employee"
         => /\ last'.exc = NoExc
            /\ form'.cls = form.cls /\ form'.emp = form.emp
            /\ IF AllAccepted(form.cls, emps[form.emp], last'.arg)
               THEN ~form'.visible /\ form'.rows = form.rows
               ELSE form'.visible /\ form'.rows = form.rows + 1]_vars

\* Update was pressed with a value its setter rejects: the form shows an
\* error label.
C15_Witness ==
    /\ last.op = "update_employee"
    /\ form.visible
    /\ form.rows = 1
    /\ ~AllAccepted(form.cls, emps[form.emp], last.arg)

\* The float the text denotes is x to the cent: not farther from it than
\* half a cent.
ToTheCent(text, x) ==
    LET v      == ToFloat(PyStr(text)).v.f
        g      == GCD(v.d, x.d)
        diff   == Abs(v.n * (x.d \div g) - x.n * (v.d \div g))
        common == (v.d \div g) * x.d
    IN  /\ ToFloat(PyStr(text)).exc = NoExc
        /\ v.k = x.k
        /\ x.k = "fin" => diff * 200 <= common

\* The fields f of a form show the current values of the employee e.
ShowsValues(f, e) ==
    /\ NatOf(f.id) = e.id_number
    /\ f.name = e.name /\ f.email = e.email /\ f.image = e.image
    /\ e.cls \in {"Executive", "Manager"} => ToTheCent(f.pay, e.yearly)
    /\ e.cls \in {"Permanent", "Temp"} => ToFloat(PyStr(f.pay)).v.f = e.hourly
    /\ e.cls = "Executive" => f.idx + 1 = e.role
    /\ e.cls = "Manager" => f.idx + 1 = e.department

\* The form classes, each with the concrete employee class it edits.
FormOf ==
    {<<"Executive", "ExecutiveForm">>, <<"Manager", "ManagerForm">>,
     <<"Permanent", "PermanentForm">>, <<"Temp", "TempForm">>}

====
